---- MODULE Spec2Model ----
(***************************************************************************)
(* A model of toml-query: the tokenizer, the resolvers and the read, set,  *)
(* insert and delete extensions of toml::Value.                            *)
(*                                                                         *)
(* A query string is a sequence of one-character strings.  A Value is a    *)
(* record with one shape for every variant, so that any two Values can be  *)
(* compared:  kind is the variant, tab the entries of a Table (a function  *)
(* from identifiers to Values), arr the elements of an Array, val the      *)
(* payload of an Integer.                                                  *)
(***************************************************************************)
EXTENDS Integers, Sequences, FiniteSets, TLC

(***************************************************************************)
(* Bounds of the model.                                                    *)
(***************************************************************************)
\* longest query, in segments
MaxSegs == 3
\* largest array index a generated query names
MaxIdx == 1
\* the largest document, in Values: a set or an insert that would leave a
\* larger one is not issued
MaxNodes == 4

(***************************************************************************)
(* toml::Value                                                             *)
(***************************************************************************)
EmptyMap == <<>>

Table(t) == [kind |-> "Table", tab |-> IF DOMAIN t = {} THEN EmptyMap ELSE t, arr |-> <<>>, val |-> 0]

Array(a) == [kind |-> "Array", tab |-> EmptyMap, arr |-> a, val |-> 0]

Integer(n) == [kind |-> "Integer", tab |-> EmptyMap, arr |-> <<>>, val |-> n]

\* the absent Value of an Option<Value> that is None
NoValue == [kind |-> "None", tab |-> EmptyMap, arr |-> <<>>, val |-> 0]

\* Map::insert / Map::remove / Map::entry(k).or_insert(v)
MapInsert(t, k, v) == [x \in (DOMAIN t) \cup {k} |-> IF x = k THEN v ELSE t[x]]

\* a slip of delete: every entry of the Map is removed with the one asked for
MapRemove_all(t, k) == [x \in {} |-> t[x]]

\* a slip of delete: the entry is looked up, but stays in the Map
MapRemove_kept(t, k) == t

MapRemove(t, k) == [x \in (DOMAIN t) \ {k} |-> t[x]]

\* Vec::insert(i, v) (0-based, i <= len) and Vec::remove(i) (0-based, i < len)
VecInsert(a, i, v) == SubSeq(a, 1, i) \o <<v>> \o SubSeq(a, i + 1, Len(a))

\* a slip of delete: the last element is removed (Vec::pop), not the one at i
VecRemove_pop(a, i) == SubSeq(a, 1, Len(a) - 1)

VecRemove(a, i) == SubSeq(a, 1, i) \o SubSeq(a, i + 2, Len(a))

(***************************************************************************)
(* tokenizer.rs                                                            *)
(***************************************************************************)
DigitChars == <<"0", "1", "2", "3", "4", "5", "6", "7", "8", "9">>

IsDigit(c) == \E i \in 1..Len(DigitChars) : DigitChars[i] = c

DigitVal(c) == (CHOOSE i \in 1..Len(DigitChars) : DigitChars[i] = c) - 1

\* Token::Identifier { ident, next } and Token::Index { idx, next }: a chain of
\* tokens is the sequence of its tokens, `next` being the rest of the sequence
Identifier(s) == [t |-> "Identifier", ident |-> s, idx |-> 0]

Index(i) == [t |-> "Index", ident |-> <<>>, idx |-> i]

\* the str::split(seperator) iterator: the segments between the separators
RECURSIVE Split(_, _)
Split(s, sep) ==
    IF \A i \in 1..Len(s) : s[i] # sep
    THEN <<s>>
    ELSE LET p == CHOOSE i \in 1..Len(s) : s[i] = sep /\ \A j \in 1..(i - 1) : s[j] # sep
         IN  <<SubSeq(s, 1, p - 1)>> \o Split(SubSeq(s, p + 1, Len(s)), sep)

has_array_brackets(s) == s[1] = "[" /\ s[Len(s)] = "]"

\* s.replace("[","").replace("]","")
without_array_brackets(s) == SelectSeq(s, LAMBDA c : c # "[" /\ c # "]")

\* the regular expression ^\[\d+\]$
RE_is_match(s) ==
    /\ Len(s) >= 3
    /\ s[1] = "["
    /\ s[Len(s)] = "]"
    /\ \A i \in 2..(Len(s) - 1) : IsDigit(s[i])

\* usize::from_str on a string of digits
RECURSIVE FromStr(_)
FromStr(s) == IF s = <<>> THEN 0 ELSE 10 * FromStr(SubSeq(s, 1, Len(s) - 1)) + DigitVal(s[Len(s)])

\* usize::MAX (64 bits) in digits
UsizeMaxDigits == <<"1", "8", "4", "4", "6", "7", "4", "4", "0", "7", "3", "7", "0", "9", "5", "5", "1", "6", "1", "5">>

RECURSIVE StripZeros(_)
StripZeros(s) == IF s # <<>> /\ Head(s) = "0" THEN StripZeros(Tail(s)) ELSE s

\* of two strings of digits of the same length, the first is the greater number
RECURSIVE DigitsGreater(_, _)
DigitsGreater(s, t) ==
    /\ s # <<>>
    /\ \/ DigitVal(Head(s)) > DigitVal(Head(t))
       \/ Head(s) = Head(t) /\ DigitsGreater(Tail(s), Tail(t))

\* usize::from_str on a string of digits is Err (PosOverflow): the number is
\* above usize::MAX
FromStr_is_err(s) ==
    LET d == StripZeros(s)
    IN  \/ Len(d) > Len(UsizeMaxDigits)
        \/ Len(d) = Len(UsizeMaxDigits) /\ DigitsGreater(d, UsizeMaxDigits)

TokOk(toks) == [ok |-> TRUE, toks |-> toks, err |-> "none"]

\* the tokenizer does not return: unwrap() of an Err
TokPanic == [ok |-> FALSE, toks |-> <<>>, err |-> "unwrap on Err"]

TokErr(e) == [ok |-> FALSE, toks |-> <<>>, err |-> e]

mk_token_object(s) ==
    IF ~has_array_brackets(s)
    THEN TokOk(<<Identifier(s)>>)
    ELSE IF ~RE_is_match(s)
         THEN TokErr("ArrayAccessWithoutIndex")
         ELSE IF FromStr_is_err(without_array_brackets(s))
              THEN TokPanic
              ELSE TokOk(<<Index(FromStr(without_array_brackets(s)))>>)

\* build_token_tree over what is left of the split; the result is the chain
\* that is hung below `last`
RECURSIVE build_token_tree(_)
build_token_tree(split) ==
    IF split = <<>>
    THEN TokOk(<<>>)
    ELSE IF Len(Head(split)) = 0
         THEN TokErr("EmptyIdentifier")
         ELSE LET token == mk_token_object(Head(split))
              IN  IF ~token.ok
                  THEN token
                  ELSE LET rest == build_token_tree(Tail(split))
                       IN  IF ~rest.ok THEN rest ELSE TokOk(token.toks \o rest.toks)

tokenize_with_seperator(query, seperator) ==
    IF query = <<>>
    THEN TokErr("EmptyQueryError")
    ELSE LET tokens == Split(query, seperator)
         IN  IF Len(Head(tokens)) = 0
             THEN TokErr("EmptyIdentifier")
             ELSE LET tok == mk_token_object(Head(tokens))
                  IN  IF ~tok.ok
                      THEN tok
                      ELSE LET rest == build_token_tree(Tail(tokens))
                           IN  IF ~rest.ok THEN rest ELSE TokOk(tok.toks \o rest.toks)

\* a slip of pop_last: the token behind the first one is taken, not the last
pop_last_second(self) ==
    IF Len(self) = 1
    THEN [tokens |-> self, some |-> FALSE, last |-> Identifier(<<>>)]
    ELSE [tokens |-> <<Head(self)>> \o Tail(Tail(self)), some |-> TRUE, last |-> Head(Tail(self))]

\* Token::pop_last: what is left of the chain, and the token taken off its end
\* (some = FALSE: the chain has one token, None is returned, nothing is taken)
RECURSIVE pop_last(_)
pop_last(self) ==
    IF Len(self) = 1
    THEN [tokens |-> self, some |-> FALSE, last |-> Identifier(<<>>)]
    ELSE LET n == Tail(self)
         IN  IF Len(n) > 1
             THEN LET result == pop_last(n)
                  IN  [tokens |-> <<Head(self)>> \o result.tokens, some |-> result.some, last |-> result.last]
             ELSE [tokens |-> <<Head(self)>>, some |-> TRUE, last |-> Head(n)]

(***************************************************************************)
(* error.rs, and what a call returns                                       *)
(***************************************************************************)
\* an Error: its variant, the String it carries (<<>>: none, or Option None)
\* and the usize values it carries
Error(kind, ident, a, b) == [kind |-> kind, ident |-> ident, a |-> a, b |-> b]

NoError == Error("none", <<>>, 0, 0)

\* Result<Option<Value>> as the caller sees it; tag "Panic": the call did not
\* return, err.kind tells which abort was reached
Ok(opt) == [tag |-> "Ok", some |-> opt # NoValue, val |-> opt, err |-> NoError]

Err(e) == [tag |-> "Err", some |-> FALSE, val |-> NoValue, err |-> e]

Panic(why) == [tag |-> "Panic", some |-> FALSE, val |-> NoValue, err |-> Error(why, <<>>, 0, 0)]

\* what a call gives when the tokenizer gave no chain of tokens: its error, or
\* its abort
tokenize_failed(e) == IF e = TokPanic.err THEN Panic(e) ELSE Err(Error(e, <<>>, 0, 0))

\* what a resolver hands back: the document as the walk left it, and for
\* Ok(Some(_)) the handle, which is the place of the resolved Value in it
Resolved(toml, handle) == [tag |-> "Ok", some |-> TRUE, err |-> NoError, toml |-> toml, handle |-> handle]

ResolvedNone(toml) == [tag |-> "Ok", some |-> FALSE, err |-> NoError, toml |-> toml, handle |-> <<>>]

ResolveErr(toml, e) == [tag |-> "Err", some |-> FALSE, err |-> e, toml |-> toml, handle |-> <<>>]

ResolvePanic(toml, why) == [tag |-> "Panic", some |-> FALSE, err |-> Error(why, <<>>, 0, 0), toml |-> toml, handle |-> <<>>]

\* the Value a handle (&Value, &mut Value) points at
RECURSIVE Deref(_, _)
Deref(toml, handle) ==
    IF handle = <<>>
    THEN toml
    ELSE LET tok == Head(handle)
         IN  IF tok.t = "Identifier"
             THEN Deref(toml.tab[tok.ident], Tail(handle))
             ELSE Deref(toml.arr[tok.idx + 1], Tail(handle))

\* the document after the Value behind a &mut handle has been changed to v
RECURSIVE Assign(_, _, _)
Assign(toml, handle, v) ==
    IF handle = <<>>
    THEN v
    ELSE LET tok == Head(handle)
         IN  IF tok.t = "Identifier"
             THEN Table([toml.tab EXCEPT ![tok.ident] = Assign(@, Tail(handle), v)])
             ELSE Array([toml.arr EXCEPT ![tok.idx + 1] = Assign(@, Tail(handle), v)])

\* a resolution that went on below the child `tok` of `parent`: the child is
\* what the walk below left of it, and the handle starts at `tok`
Below(parent, tok, r) ==
    LET toml == IF tok.t = "Identifier"
                THEN Table(MapInsert(parent.tab, tok.ident, r.toml))
                ELSE Array([parent.arr EXCEPT ![tok.idx + 1] = r.toml])
    IN  [r EXCEPT !.toml = toml, !.handle = IF r.tag = "Ok" /\ r.some THEN <<tok>> \o r.handle ELSE <<>>]

(***************************************************************************)
(* resolver/mut_creating_resolver.rs                                       *)
(***************************************************************************)
\* a slip of the creating resolver: the container made for a missing key is an Array
created_subdoc_array == Array(<<>>)

\* Value::Table(Map::new()), the container made for a missing key
created_subdoc == Table(EmptyMap)

\* a slip of the creating resolver: the container made for a missing key is
\* chosen by the next token, an Array before an Index
RECURSIVE mut_creating_resolver_resolve_by_next(_, _)
mut_creating_resolver_resolve_by_next(toml, tokens) ==
    LET tok  == Head(tokens)
        next == Tail(tokens)
    IN  IF tok.t = "Identifier"
        THEN IF toml.kind = "Table"
             THEN IF tok.ident \in DOMAIN toml.tab
                  THEN IF next # <<>>
                       THEN Below(toml, tok, mut_creating_resolver_resolve_by_next(toml.tab[tok.ident], next))
                       ELSE Resolved(toml, <<tok>>)
                  ELSE LET subdoc  == IF next # <<>> /\ Head(next).t = "Index" THEN Array(<<>>) ELSE created_subdoc
                           created == Table(MapInsert(toml.tab, tok.ident, subdoc))
                       IN  IF next # <<>>
                           THEN Below(created, tok, mut_creating_resolver_resolve_by_next(subdoc, next))
                           ELSE Resolved(created, <<tok>>)
             ELSE IF toml.kind = "Array"
                  THEN ResolveErr(toml, Error("NoIdentifierInArray", tok.ident, 0, 0))
                  ELSE ResolvePanic(toml, "unimplemented")
        ELSE IF toml.kind = "Table"
             THEN ResolveErr(toml, Error("NoIndexInTable", <<>>, tok.idx, 0))
             ELSE IF toml.kind = "Array"
                  THEN IF Len(toml.arr) > tok.idx
                       THEN IF next # <<>>
                            THEN Below(toml, tok, mut_creating_resolver_resolve_by_next(toml.arr[tok.idx + 1], next))
                            ELSE Resolved(toml, <<tok>>)
                       ELSE IF next # <<>>
                            THEN LET pushed == IF Head(next).t = "Identifier"
                                               THEN Array(Append(toml.arr, Table(EmptyMap)))
                                               ELSE Array(Append(toml.arr, Array(<<>>)))
                                 IN  ResolvePanic(pushed, "Cannot do this")
                            ELSE ResolvePanic(toml, "unimplemented")
                  ELSE ResolvePanic(toml, "unimplemented")

RECURSIVE mut_creating_resolver_resolve(_, _)
mut_creating_resolver_resolve(toml, tokens) ==
    LET tok  == Head(tokens)
        next == Tail(tokens)
    IN  IF tok.t = "Identifier"
        THEN IF toml.kind = "Table"
             THEN IF tok.ident \in DOMAIN toml.tab
                  THEN IF next # <<>>
                       THEN Below(toml, tok, mut_creating_resolver_resolve(toml.tab[tok.ident], next))
                       ELSE Resolved(toml, <<tok>>)
                  ELSE LET created == Table(MapInsert(toml.tab, tok.ident, created_subdoc))
                       IN  IF next # <<>>
                           THEN Below(created, tok, mut_creating_resolver_resolve(created_subdoc, next))
                           ELSE Resolved(created, <<tok>>)
             ELSE IF toml.kind = "Array"
                  THEN ResolveErr(toml, Error("NoIdentifierInArray", tok.ident, 0, 0))
                  ELSE ResolvePanic(toml, "unimplemented")
        ELSE IF toml.kind = "Table"
             THEN ResolveErr(toml, Error("NoIndexInTable", <<>>, tok.idx, 0))
             ELSE IF toml.kind = "Array"
                  THEN IF Len(toml.arr) > tok.idx
                       THEN IF next # <<>>
                            THEN Below(toml, tok, mut_creating_resolver_resolve(toml.arr[tok.idx + 1], next))
                            ELSE Resolved(toml, <<tok>>)
                       ELSE IF next # <<>>
                            THEN LET pushed == IF Head(next).t = "Identifier"
                                               THEN Array(Append(toml.arr, Table(EmptyMap)))
                                               ELSE Array(Append(toml.arr, Array(<<>>)))
                                 IN  ResolvePanic(pushed, "Cannot do this")
                            ELSE ResolvePanic(toml, "unimplemented")
                  ELSE ResolvePanic(toml, "unimplemented")

(***************************************************************************)
(* resolver::non_mut_resolver and resolver::mut_resolver: the walk that    *)
(* creates nothing.  Absence (a key the Table lacks, an index at or past   *)
(* the end of the Array) is None for a reader and an error for a caller    *)
(* that asks for one (error_if_not_found).                                 *)
(***************************************************************************)
RECURSIVE resolve_walk(_, _, _)
resolve_walk(toml, tokens, error_if_not_found) ==
    LET tok  == Head(tokens)
        next == Tail(tokens)
    IN  IF toml.kind = "Table"
        THEN IF tok.t = "Identifier"
             THEN IF tok.ident \notin DOMAIN toml.tab
                  THEN IF error_if_not_found
                       THEN ResolveErr(toml, Error("IdentifierNotFoundInDocument", tok.ident, 0, 0))
                       ELSE ResolvedNone(toml)
                  ELSE IF next # <<>>
                       THEN Below(toml, tok, resolve_walk(toml.tab[tok.ident], next, error_if_not_found))
                       ELSE Resolved(toml, <<tok>>)
             ELSE ResolveErr(toml, Error("NoIndexInTable", <<>>, tok.idx, 0))
        ELSE IF toml.kind = "Array"
             THEN IF tok.t = "Index"
                  THEN IF tok.idx >= Len(toml.arr)
                       THEN IF error_if_not_found
                            THEN ResolveErr(toml, Error("ArrayIndexOutOfBounds", <<>>, tok.idx, Len(toml.arr)))
                            ELSE ResolvedNone(toml)
                       ELSE IF next # <<>>
                            THEN Below(toml, tok, resolve_walk(toml.arr[tok.idx + 1], next, error_if_not_found))
                            ELSE Resolved(toml, <<tok>>)
                  ELSE ResolveErr(toml, Error("NoIdentifierInArray", tok.ident, 0, 0))
             ELSE IF tok.t = "Identifier"
                  THEN ResolveErr(toml, Error("QueryingValueAsTable", tok.ident, 0, 0))
                  ELSE ResolveErr(toml, Error("QueryingValueAsArray", <<>>, tok.idx, 0))

\* a slip of the resolver (the older resolver.rs has it): an Identifier that
\* meets a scalar is reported as a key that was not found
non_mut_resolver_resolve_not_found(toml, tokens, error_if_not_found) ==
    LET r == resolve_walk(toml, tokens, error_if_not_found)
    IN  IF r.tag = "Err" /\ r.err.kind = "QueryingValueAsTable"
        THEN ResolveErr(r.toml, Error("IdentifierNotFoundInDocument", r.err.ident, 0, 0))
        ELSE r

non_mut_resolver_resolve(toml, tokens, error_if_not_found) == resolve_walk(toml, tokens, error_if_not_found)

mut_resolver_resolve(toml, tokens, error_if_not_found) == resolve_walk(toml, tokens, error_if_not_found)

(***************************************************************************)
(* The extensions.  Each yields what the call returns (res) and the        *)
(* document the call leaves behind (doc).                                  *)
(***************************************************************************)
Returns(res, d) == [res |-> res, doc |-> d]

\* Map::get
MapGet(t, k) == IF k \in DOMAIN t THEN t[k] ELSE NoValue

(***************************************************************************)
(* read.rs                                                                 *)
(***************************************************************************)
\* a slip of read: the query is resolved with the creating resolver of insert
read_with_seperator_creating(self, query, sep) ==
    LET tokens == tokenize_with_seperator(query, sep)
    IN  IF ~tokens.ok
        THEN Returns(tokenize_failed(tokens.err), self)
        ELSE LET r == mut_creating_resolver_resolve(self, tokens.toks)
             IN  IF r.tag = "Err"
                 THEN Returns(Err(r.err), r.toml)
                 ELSE IF r.tag = "Panic"
                      THEN Returns(Panic(r.err.kind), r.toml)
                      ELSE Returns(Ok(Deref(r.toml, r.handle)), r.toml)

\* a slip of read: error_if_not_found is passed as true
read_with_seperator_erroring(self, query, sep) ==
    LET tokens == tokenize_with_seperator(query, sep)
    IN  IF ~tokens.ok
        THEN Returns(tokenize_failed(tokens.err), self)
        ELSE LET r == non_mut_resolver_resolve(self, tokens.toks, TRUE)
             IN  IF r.tag = "Err"
                 THEN Returns(Err(r.err), r.toml)
                 ELSE IF r.some
                      THEN Returns(Ok(Deref(r.toml, r.handle)), r.toml)
                      ELSE Returns(Ok(NoValue), r.toml)

read_with_seperator(self, query, sep) ==
    LET tokens == tokenize_with_seperator(query, sep)
    IN  IF ~tokens.ok
        THEN Returns(tokenize_failed(tokens.err), self)
        ELSE LET r == non_mut_resolver_resolve(self, tokens.toks, FALSE)
             IN  IF r.tag = "Err"
                 THEN Returns(Err(r.err), r.toml)
                 ELSE IF r.some
                      THEN Returns(Ok(Deref(r.toml, r.handle)), r.toml)
                      ELSE Returns(Ok(NoValue), r.toml)

read_mut_with_seperator(self, query, sep) ==
    LET tokens == tokenize_with_seperator(query, sep)
    IN  IF ~tokens.ok
        THEN Returns(tokenize_failed(tokens.err), self)
        ELSE LET r == mut_resolver_resolve(self, tokens.toks, FALSE)
             IN  IF r.tag = "Err"
                 THEN Returns(Err(r.err), r.toml)
                 ELSE IF r.some
                      THEN Returns(Ok(Deref(r.toml, r.handle)), r.toml)
                      ELSE Returns(Ok(NoValue), r.toml)

(***************************************************************************)
(* insert.rs                                                               *)
(***************************************************************************)
insert_with_seperator(self, query, sep, value) ==
    LET tokens == tokenize_with_seperator(query, sep)
    IN  IF ~tokens.ok
        THEN Returns(tokenize_failed(tokens.err), self)
        ELSE LET popped == pop_last(tokens.toks)
             IN  IF ~popped.some
                 THEN Returns(Panic("unwrap on None"), self)
                 ELSE LET last_token == popped.last
                          r   == mut_creating_resolver_resolve(self, popped.tokens)
                          val == Deref(r.toml, r.handle)
                      IN  IF r.tag = "Err"
                          THEN Returns(Err(r.err), r.toml)
                          ELSE IF r.tag = "Panic"
                          THEN Returns(Panic(r.err.kind), r.toml)
                          ELSE IF last_token.t = "Identifier"
                          THEN IF val.kind = "Table"
                               THEN Returns(Ok(MapGet(val.tab, last_token.ident)),
                                            Assign(r.toml, r.handle, Table(MapInsert(val.tab, last_token.ident, value))))
                               ELSE Returns(Err(Error("NoIdentifierInArray", last_token.ident, 0, 0)), r.toml)
                          ELSE IF val.kind = "Array"
                               THEN IF Len(val.arr) > last_token.idx
                                    THEN Returns(Ok(NoValue),
                                                 Assign(r.toml, r.handle, Array(VecInsert(val.arr, last_token.idx, value))))
                                    ELSE Returns(Ok(NoValue),
                                                 Assign(r.toml, r.handle, Array(Append(val.arr, value))))
                               ELSE Returns(Err(Error("NoIndexInTable", <<>>, last_token.idx, 0)), r.toml)

(***************************************************************************)
(* delete.rs                                                               *)
(***************************************************************************)
is_table(val) == val.kind = "Table"

is_array(val) == val.kind = "Array"

\* a slip of delete: the emptiness of a container is not looked at
is_empty_unchecked(val, default) == default

is_empty(val, default) ==
    IF val.kind = "Table" THEN DOMAIN val.tab = {}
    ELSE IF val.kind = "Array" THEN val.arr = <<>>
    ELSE default

\* a slip of delete: the entry is removed, but the removed Value is not returned
delete_from_table_silent(toml, handle, tab, ident) ==
    IF is_empty(MapGet(tab, ident), TRUE)
    THEN Returns(Ok(NoValue), Assign(toml, handle, Table(MapRemove(tab, ident))))
    ELSE IF is_table(MapGet(tab, ident))
         THEN Returns(Err(Error("CannotDeleteNonEmptyTable", ident, 0, 0)), toml)
         ELSE IF is_array(MapGet(tab, ident))
              THEN Returns(Err(Error("CannotDeleteNonEmptyArray", ident, 0, 0)), toml)
              ELSE Returns(Err(Error("CannotAccessBecauseTypeMismatch", <<>>, 0, 0)), toml)

\* the removal of the entry `ident` of the Table `tab` that sits at `handle`
delete_from_table(toml, handle, tab, ident) ==
    IF is_empty(MapGet(tab, ident), TRUE)
    THEN Returns(Ok(MapGet(tab, ident)), Assign(toml, handle, Table(MapRemove(tab, ident))))
    ELSE IF is_table(MapGet(tab, ident))
         THEN Returns(Err(Error("CannotDeleteNonEmptyTable", ident, 0, 0)), toml)
         ELSE IF is_array(MapGet(tab, ident))
              THEN Returns(Err(Error("CannotDeleteNonEmptyArray", ident, 0, 0)), toml)
              ELSE Returns(Err(Error("CannotAccessBecauseTypeMismatch", <<>>, 0, 0)), toml)

\* the removal of the element `idx` of the Array `arr` that sits at `handle`;
\* arr.index(idx) aborts when idx is not below the length
delete_from_array(toml, handle, arr, idx) ==
    IF idx >= Len(arr)
    THEN Returns(Panic("index out of bounds"), toml)
    ELSE IF is_empty(arr[idx + 1], TRUE)
         THEN Returns(Ok(arr[idx + 1]), Assign(toml, handle, Array(VecRemove(arr, idx))))
         ELSE IF is_table(arr[idx + 1])
              THEN Returns(Err(Error("CannotDeleteNonEmptyTable", <<>>, 0, 0)), toml)
              ELSE IF is_array(arr[idx + 1])
                   THEN Returns(Err(Error("CannotDeleteNonEmptyArray", <<>>, 0, 0)), toml)
                   ELSE Returns(Err(Error("CannotAccessBecauseTypeMismatch", <<>>, 0, 0)), toml)

\* a slip of delete: the prefix is resolved as a reader resolves it, absence
\* being None, and the None is unwrapped
delete_with_seperator_lenient(self, query, sep) ==
    LET tokenized == tokenize_with_seperator(query, sep)
    IN  IF ~tokenized.ok
        THEN Returns(tokenize_failed(tokenized.err), self)
        ELSE LET popped == pop_last(tokenized.toks)
                 tokens == Head(popped.tokens)
             IN  IF ~popped.some
                 THEN IF self.kind = "Table"
                      THEN IF tokens.t = "Identifier"
                           THEN delete_from_table(self, <<>>, self.tab, tokens.ident)
                           ELSE Returns(Ok(NoValue), self)
                      ELSE IF self.kind = "Array"
                           THEN IF tokens.t = "Identifier"
                                THEN Returns(Err(Error("NoIdentifierInArray", tokens.ident, 0, 0)), self)
                                ELSE delete_from_array(self, <<>>, self.arr, tokens.idx)
                           ELSE IF tokens.t = "Identifier"
                                THEN Returns(Err(Error("QueryingValueAsTable", tokens.ident, 0, 0)), self)
                                ELSE Returns(Err(Error("QueryingValueAsArray", <<>>, tokens.idx, 0)), self)
                 ELSE LET last_token == popped.last
                          r   == mut_resolver_resolve(self, popped.tokens, FALSE)
                          val == Deref(r.toml, r.handle)
                      IN  IF r.tag = "Err"
                          THEN Returns(Err(r.err), r.toml)
                          ELSE IF ~r.some
                          THEN Returns(Panic("unwrap on None"), r.toml)
                          ELSE IF val.kind = "Table"
                          THEN IF last_token.t = "Identifier"
                               THEN delete_from_table(r.toml, r.handle, val.tab, last_token.ident)
                               ELSE Returns(Err(Error("NoIndexInTable", <<>>, last_token.idx, 0)), r.toml)
                          ELSE IF val.kind = "Array"
                          THEN IF last_token.t = "Identifier"
                               THEN Returns(Err(Error("NoIdentifierInArray", last_token.ident, 0, 0)), r.toml)
                               ELSE IF last_token.idx > Len(val.arr)
                                    THEN Returns(Err(Error("ArrayIndexOutOfBounds", <<>>, last_token.idx, Len(val.arr))), r.toml)
                                    ELSE delete_from_array(r.toml, r.handle, val.arr, last_token.idx)
                          ELSE IF last_token.t = "Identifier"
                               THEN Returns(Err(Error("QueryingValueAsTable", last_token.ident, 0, 0)), r.toml)
                               ELSE Returns(Err(Error("QueryingValueAsArray", <<>>, last_token.idx, 0)), r.toml)

delete_with_seperator(self, query, sep) ==
    LET tokenized == tokenize_with_seperator(query, sep)
    IN  IF ~tokenized.ok
        THEN Returns(tokenize_failed(tokenized.err), self)
        ELSE LET popped == pop_last(tokenized.toks)
                 tokens == Head(popped.tokens)
             IN  IF ~popped.some
                 THEN IF self.kind = "Table"
                      THEN IF tokens.t = "Identifier"
                           THEN delete_from_table(self, <<>>, self.tab, tokens.ident)
                           ELSE Returns(Ok(NoValue), self)
                      ELSE IF self.kind = "Array"
                           THEN IF tokens.t = "Identifier"
                                THEN Returns(Err(Error("NoIdentifierInArray", tokens.ident, 0, 0)), self)
                                ELSE delete_from_array(self, <<>>, self.arr, tokens.idx)
                           ELSE IF tokens.t = "Identifier"
                                THEN Returns(Err(Error("QueryingValueAsTable", tokens.ident, 0, 0)), self)
                                ELSE Returns(Err(Error("QueryingValueAsArray", <<>>, tokens.idx, 0)), self)
                 ELSE LET last_token == popped.last
                          r   == mut_resolver_resolve(self, popped.tokens, TRUE)
                          val == Deref(r.toml, r.handle)
                      IN  IF r.tag = "Err"
                          THEN Returns(Err(r.err), r.toml)
                          ELSE IF ~r.some
                          THEN Returns(Panic("unwrap on None"), r.toml)
                          ELSE IF val.kind = "Table"
                          THEN IF last_token.t = "Identifier"
                               THEN delete_from_table(r.toml, r.handle, val.tab, last_token.ident)
                               ELSE Returns(Err(Error("NoIndexInTable", <<>>, last_token.idx, 0)), r.toml)
                          ELSE IF val.kind = "Array"
                          THEN IF last_token.t = "Identifier"
                               THEN Returns(Err(Error("NoIdentifierInArray", last_token.ident, 0, 0)), r.toml)
                               ELSE IF last_token.idx > Len(val.arr)
                                    THEN Returns(Err(Error("ArrayIndexOutOfBounds", <<>>, last_token.idx, Len(val.arr))), r.toml)
                                    ELSE delete_from_array(r.toml, r.handle, val.arr, last_token.idx)
                          ELSE IF last_token.t = "Identifier"
                               THEN Returns(Err(Error("QueryingValueAsTable", last_token.ident, 0, 0)), r.toml)
                               ELSE Returns(Err(Error("QueryingValueAsArray", <<>>, last_token.idx, 0)), r.toml)

(***************************************************************************)
(* set.rs                                                                  *)
(***************************************************************************)
\* a slip of set: an index at or past the end appends, as insert does it
set_in_parent_appending(toml, handle, last_token, value) ==
    LET val == Deref(toml, handle)
    IN  IF val.kind = "Table"
        THEN IF last_token.t = "Identifier"
             THEN Returns(Ok(MapGet(val.tab, last_token.ident)),
                          Assign(toml, handle, Table(MapInsert(val.tab, last_token.ident, value))))
             ELSE Returns(Err(Error("NoIndexInTable", <<>>, last_token.idx, 0)), toml)
        ELSE IF val.kind = "Array"
        THEN IF last_token.t = "Index"
             THEN IF last_token.idx >= Len(val.arr)
                  THEN Returns(Ok(NoValue), Assign(toml, handle, Array(Append(val.arr, value))))
                  ELSE Returns(Ok(val.arr[last_token.idx + 1]),
                               Assign(toml, handle, Array([val.arr EXCEPT ![last_token.idx + 1] = value])))
             ELSE Returns(Err(Error("NoIdentifierInArray", last_token.ident, 0, 0)), toml)
        ELSE IF last_token.t = "Identifier"
             THEN Returns(Err(Error("QueryingValueAsTable", last_token.ident, 0, 0)), toml)
             ELSE Returns(Err(Error("QueryingValueAsArray", <<>>, last_token.idx, 0)), toml)

\* a slip of set: the value is inserted before the element, as insert does it
set_in_parent_inserting(toml, handle, last_token, value) ==
    LET val == Deref(toml, handle)
    IN  IF val.kind = "Table"
        THEN IF last_token.t = "Identifier"
             THEN Returns(Ok(MapGet(val.tab, last_token.ident)),
                          Assign(toml, handle, Table(MapInsert(val.tab, last_token.ident, value))))
             ELSE Returns(Err(Error("NoIndexInTable", <<>>, last_token.idx, 0)), toml)
        ELSE IF val.kind = "Array"
        THEN IF last_token.t = "Index"
             THEN IF last_token.idx >= Len(val.arr)
                  THEN Returns(Err(Error("ArrayIndexOutOfBounds", <<>>, last_token.idx, Len(val.arr))), toml)
                  ELSE Returns(Ok(val.arr[last_token.idx + 1]),
                               Assign(toml, handle, Array(VecInsert(val.arr, last_token.idx, value))))
             ELSE Returns(Err(Error("NoIdentifierInArray", last_token.ident, 0, 0)), toml)
        ELSE IF last_token.t = "Identifier"
             THEN Returns(Err(Error("QueryingValueAsTable", last_token.ident, 0, 0)), toml)
             ELSE Returns(Err(Error("QueryingValueAsArray", <<>>, last_token.idx, 0)), toml)

\* the last token applied to the parent that sits at `handle`
set_in_parent(toml, handle, last_token, value) ==
    LET val == Deref(toml, handle)
    IN  IF val.kind = "Table"
        THEN IF last_token.t = "Identifier"
             THEN Returns(Ok(MapGet(val.tab, last_token.ident)),
                          Assign(toml, handle, Table(MapInsert(val.tab, last_token.ident, value))))
             ELSE Returns(Err(Error("NoIndexInTable", <<>>, last_token.idx, 0)), toml)
        ELSE IF val.kind = "Array"
        THEN IF last_token.t = "Index"
             THEN IF last_token.idx >= Len(val.arr)
                  THEN Returns(Err(Error("ArrayIndexOutOfBounds", <<>>, last_token.idx, Len(val.arr))), toml)
                  ELSE Returns(Ok(val.arr[last_token.idx + 1]),
                               Assign(toml, handle, Array([val.arr EXCEPT ![last_token.idx + 1] = value])))
             ELSE Returns(Err(Error("NoIdentifierInArray", last_token.ident, 0, 0)), toml)
        ELSE IF last_token.t = "Identifier"
             THEN Returns(Err(Error("QueryingValueAsTable", last_token.ident, 0, 0)), toml)
             ELSE Returns(Err(Error("QueryingValueAsArray", <<>>, last_token.idx, 0)), toml)

\* a slip of set: the prefix is resolved with the creating resolver of insert
set_with_seperator_creating(self, query, sep, value) ==
    LET tokens == tokenize_with_seperator(query, sep)
    IN  IF ~tokens.ok
        THEN Returns(tokenize_failed(tokens.err), self)
        ELSE LET popped == pop_last(tokens.toks)
             IN  IF ~popped.some
                 THEN set_in_parent(self, <<>>, Head(popped.tokens), value)
                 ELSE LET r == mut_creating_resolver_resolve(self, popped.tokens)
                      IN  IF r.tag = "Err"
                          THEN Returns(Err(r.err), r.toml)
                          ELSE IF r.tag = "Panic"
                          THEN Returns(Panic(r.err.kind), r.toml)
                          ELSE set_in_parent(r.toml, r.handle, popped.last, value)

set_with_seperator(self, query, sep, value) ==
    LET tokens == tokenize_with_seperator(query, sep)
    IN  IF ~tokens.ok
        THEN Returns(tokenize_failed(tokens.err), self)
        ELSE LET popped == pop_last(tokens.toks)
             IN  IF ~popped.some
                 THEN set_in_parent(self, <<>>, Head(popped.tokens), value)
                 ELSE LET r == mut_resolver_resolve(self, popped.tokens, TRUE)
                      IN  IF r.tag = "Err"
                          THEN Returns(Err(r.err), r.toml)
                          ELSE set_in_parent(r.toml, r.handle, popped.last, value)

(***************************************************************************)
(* The inputs of the model                                                 *)
(***************************************************************************)
Keys == {<<"a">>, <<"b">>}

Indices == 0..MaxIdx

\* the segments of the generated queries: the keys, and "[i]" for the indices
Segments == Keys \cup {<<"[", DigitChars[i + 1], "]">> : i \in Indices}

Seperator == "."

RECURSIVE Join(_)
Join(segs) == IF Len(segs) = 1 THEN Head(segs) ELSE Head(segs) \o <<Seperator>> \o Join(Tail(segs))

SegmentLists == UNION {[1..n -> Segments] : n \in 1..MaxSegs}

\* queries the tokenizer refuses: empty, with an empty segment, with brackets
\* that hold no index
MalformedQueries == {<<>>, <<".">>, <<"a", ".">>, <<"a", ".", ".", "b">>, <<"[", "]">>, <<"a", ".", "[", "b", "]">>}

\* a query with an index above usize::MAX
OverflowQuery == <<"[">> \o [i \in 1..(Len(UsizeMaxDigits) + 1) |-> "9"] \o <<"]">>

Queries == {Join(segs) : segs \in SegmentLists} \cup MalformedQueries \cup {OverflowQuery}

\* the values that are set and inserted
Values == {Integer(1), Table(EmptyMap), Array(<<>>)}

\* the documents a run starts from: the empty document, a scalar, and the
\* arrays of up to two elements
Elements == {Integer(1), Table(EmptyMap), Array(<<>>)}

InitDocs == {Table(EmptyMap), Integer(1)} \cup {Array(a) : a \in UNION {[1..n -> Elements] : n \in 0..2}}

RECURSIVE SumOver(_, _)
SumOver(f, S) == IF S = {} THEN 0 ELSE LET x == CHOOSE x \in S : TRUE IN f[x] + SumOver(f, S \ {x})

\* the number of Values in a document, the document included
RECURSIVE NodeCount(_)
NodeCount(v) ==
    IF v.kind = "Table"
    THEN 1 + SumOver([k \in DOMAIN v.tab |-> NodeCount(v.tab[k])], DOMAIN v.tab)
    ELSE IF v.kind = "Array"
         THEN 1 + SumOver([i \in DOMAIN v.arr |-> NodeCount(v.arr[i])], DOMAIN v.arr)
         ELSE 1

(***************************************************************************)
(* The state: the document, where the caller is (idle: no call is going    *)
(* on; returned: a call has returned and its result is held; aborted: a    *)
(* call has panicked), and the last call with the document it was made on. *)
(***************************************************************************)
VARIABLES doc, pc, last

vars == <<doc, pc, last>>

Call(op, query, value, pre, res) == [op |-> op, query |-> query, value |-> value, pre |-> pre, res |-> res]

NoCall == Call("none", <<>>, NoValue, NoValue, Ok(NoValue))

Init ==
    /\ doc \in InitDocs
    /\ pc = "idle"
    /\ last = NoCall

\* the call `op` has run to its end `out` on the document
Done(op, query, value, out) ==
    /\ doc' = out.doc
    /\ pc' = IF out.res.tag = "Panic" THEN "aborted" ELSE "returned"
    /\ last' = Call(op, query, value, doc, out.res)

Read ==
    /\ pc = "idle"
    /\ \E query \in Queries : Done("read", query, NoValue, read_with_seperator(doc, query, Seperator))

ReadMut ==
    /\ pc = "idle"
    /\ \E query \in Queries : Done("read_mut", query, NoValue, read_mut_with_seperator(doc, query, Seperator))

Set ==
    /\ pc = "idle"
    /\ \E query \in Queries, value \in Values :
          LET out == set_with_seperator(doc, query, Seperator, value)
          IN  NodeCount(out.doc) <= MaxNodes /\ Done("set", query, value, out)

Insert ==
    /\ pc = "idle"
    /\ \E query \in Queries, value \in Values :
          LET out == insert_with_seperator(doc, query, Seperator, value)
          IN  NodeCount(out.doc) <= MaxNodes /\ Done("insert", query, value, out)

Delete ==
    /\ pc = "idle"
    /\ \E query \in Queries : Done("delete", query, NoValue, delete_with_seperator(doc, query, Seperator))

\* the caller lets go of the result (and of the borrow of the document that a
\* read holds), and may call again
Release ==
    /\ pc = "returned"
    /\ pc' = "idle"
    /\ last' = NoCall
    /\ UNCHANGED doc

Next == Read \/ ReadMut \/ Set \/ Insert \/ Delete \/ Release

Spec == Init /\ [][Next]_vars
(***************************************************************************)
(* What the claims speak of                                                *)
(***************************************************************************)
\* the tokens of the last call's query (<<>> when the tokenizer refused it)
LastTokens == tokenize_with_seperator(last.query, Seperator).toks

\* the tokens before the last one, and the last one
LastPrefix == SubSeq(LastTokens, 1, Len(LastTokens) - 1)

LastSegment == LastTokens[Len(LastTokens)]

AllIdentifiers(toks) == \A i \in 1..Len(toks) : toks[i].t = "Identifier"

\* the Value a path addresses in a document: NoValue when a key is absent,
\* an index is past the end, or a segment does not fit the kind of the Value
RECURSIVE Addressed(_, _)
Addressed(v, toks) ==
    IF toks = <<>> THEN v
    ELSE LET tok == Head(toks)
         IN  IF tok.t = "Identifier" /\ v.kind = "Table" /\ tok.ident \in DOMAIN v.tab
             THEN Addressed(v.tab[tok.ident], Tail(toks))
             ELSE IF tok.t = "Index" /\ v.kind = "Array" /\ tok.idx < Len(v.arr)
                  THEN Addressed(v.arr[tok.idx + 1], Tail(toks))
                  ELSE NoValue

Addresses(v, toks) == toks # <<>> /\ Addressed(v, toks) # NoValue

\* a walk along identifiers through Tables meets an absent key
RECURSIVE MeetsAbsentKey(_, _)
MeetsAbsentKey(v, toks) ==
    /\ toks # <<>>
    /\ v.kind = "Table"
    /\ \/ Head(toks).ident \notin DOMAIN v.tab
       \/ /\ Head(toks).ident \in DOMAIN v.tab
          /\ MeetsAbsentKey(v.tab[Head(toks).ident], Tail(toks))

\* the document with V stored under the last of the keys, an empty Table
\* standing under every key that was missing on the way
RECURSIVE WithEntry(_, _, _)
WithEntry(v, toks, V) ==
    LET k == Head(toks).ident
    IN  IF Len(toks) = 1
        THEN Table(MapInsert(v.tab, k, V))
        ELSE Table(MapInsert(v.tab, k, WithEntry(IF k \in DOMAIN v.tab THEN v.tab[k] ELSE Table(EmptyMap), Tail(toks), V)))

C1_Case ==
    /\ last.op = "insert"
    /\ Len(LastTokens) >= 2
    /\ AllIdentifiers(LastTokens)
    /\ MeetsAbsentKey(last.pre, LastPrefix)

NonEmptyContainer(v) ==
    \/ v.kind = "Table" /\ DOMAIN v.tab # {}
    \/ v.kind = "Array" /\ v.arr # <<>>

C2_Case ==
    /\ last.op = "delete"
    /\ Addresses(last.pre, LastTokens)
    /\ NonEmptyContainer(Addressed(last.pre, LastTokens))

\* C2: a delete at a path that addresses a non-empty Table fails with
\* CannotDeleteNonEmptyTable, at one that addresses a non-empty Array with
\* CannotDeleteNonEmptyArray, and the document is the one it was called on
C2_DeleteKeepsNonEmpty ==
    C2_Case => /\ last.res.tag = "Err"
               /\ last.res.err.kind = IF Addressed(last.pre, LastTokens).kind = "Table"
                                      THEN "CannotDeleteNonEmptyTable"
                                      ELSE "CannotDeleteNonEmptyArray"
               /\ doc = last.pre

\* a refused delete of a non-empty Array that is an element of a nested Array
C2_Witness ==
    /\ C2_Case
    /\ Len(LastTokens) = 2
    /\ LastSegment.t = "Index"
    /\ Addressed(last.pre, LastTokens).kind = "Array"
    /\ last.res.err.kind = "CannotDeleteNonEmptyArray"

\* C3: every call of read, read_mut, set, insert and delete returns Ok or a
\* typed Err; none aborts
C3_NoCallAborts == pc # "aborted" /\ last.res.tag # "Panic"

(***************************************************************************)
(* Reading: absence                                                        *)
(***************************************************************************)
\* the walk along toks reaches a Table that lacks the key of the current
\* Identifier, or an Array whose length is at most the current Index
RECURSIVE WalkMeetsAbsence(_, _)
WalkMeetsAbsence(v, toks) ==
    /\ toks # <<>>
    /\ LET tok == Head(toks)
       IN  \/ v.kind = "Table" /\ tok.t = "Identifier" /\ tok.ident \notin DOMAIN v.tab
           \/ v.kind = "Array" /\ tok.t = "Index" /\ tok.idx >= Len(v.arr)
           \/ /\ v.kind = "Table" /\ tok.t = "Identifier" /\ tok.ident \in DOMAIN v.tab
              /\ WalkMeetsAbsence(v.tab[tok.ident], Tail(toks))
           \/ /\ v.kind = "Array" /\ tok.t = "Index" /\ tok.idx < Len(v.arr)
              /\ WalkMeetsAbsence(v.arr[tok.idx + 1], Tail(toks))

C4_Case ==
    /\ last.op = "read"
    /\ WalkMeetsAbsence(last.pre, LastTokens)

\* C4: a read whose walk reaches, at any position of the path, a Table that
\* lacks the key of the current Identifier or an Array whose length is at most
\* the current Index returns Ok(None), not an error
C4_ReadOfAbsentIsNone == C4_Case => last.res = Ok(NoValue)

\* a read of three segments that finds the index of the first one past the end
\* of the root Array, and one that finds the key of the second one missing
C4_Witness ==
    /\ C4_Case
    /\ Len(LastTokens) = 3
    /\ \/ WalkMeetsAbsence(last.pre, SubSeq(LastTokens, 1, 1)) /\ last.pre.kind = "Array"
       \/ /\ ~WalkMeetsAbsence(last.pre, SubSeq(LastTokens, 1, 1))
          /\ WalkMeetsAbsence(last.pre, SubSeq(LastTokens, 1, 2))
          /\ LastTokens[2].t = "Identifier"
    /\ last.res = Ok(NoValue)

(***************************************************************************)
(* The parent of the path of the last call: what the prefix addresses in   *)
(* the document the call was made on (the root for a path of one segment)  *)
(***************************************************************************)
LastParent == Addressed(last.pre, LastPrefix)

\* what a read of the path of the last call returns on the document as it is now
ReadAgain == read_with_seperator(doc, last.query, Seperator).res

(***************************************************************************)
(* insert, then read                                                       *)
(***************************************************************************)
C5_Case ==
    /\ last.op = "insert"
    /\ Len(LastTokens) >= 1
    /\ LastSegment.t = "Identifier"
    /\ LastParent.kind = "Table"
    /\ LastSegment.ident \notin DOMAIN LastParent.tab

C5_Outcome ==
    /\ last.res.tag = "Ok"
    /\ ReadAgain = Ok(last.value)

\* C5: after an insert of V at a path whose parent is an existing Table
\* without the last key of the path, a read of the path returns Ok(Some(V)),
\* for paths of one segment as for longer ones
C5_InsertThenRead == C5_Case => C5_Outcome

\* the same for the paths of two or more segments only
C5_InsertThenReadBelowRoot == (C5_Case /\ Len(LastTokens) >= 2) => C5_Outcome

C5_BelowRootWitness ==
    /\ C5_Case
    /\ Len(LastTokens) = 3
    /\ C5_Outcome

(***************************************************************************)
(* delete, then read                                                       *)
(***************************************************************************)
\* a delete that succeeded and removed a Value
C6_Case ==
    /\ last.op = "delete"
    /\ last.res.tag = "Ok"
    /\ last.res.some

\* the element that stood behind the removed one in its Array, if any
C6_Follower ==
    IF LastSegment.t = "Index" /\ LastSegment.idx + 1 < Len(LastParent.arr)
    THEN LastParent.arr[LastSegment.idx + 2]
    ELSE NoValue

\* C6 as stated: after a delete that succeeded and removed a Value, a read of
\* the same path returns Ok(None), whether the path ends in a key or in an index
C6_DeleteThenReadIsNone == C6_Case => ReadAgain = Ok(NoValue)

\* C6, amended: after a delete that succeeded and removed a Value, a read of
\* the same path returns Ok(None) when the path ends in a key of a Table or in
\* the index of the last element of its Array; when it ends in the index of an
\* earlier element, the read returns the element that stood behind the removed one
C6_DeleteThenRead == C6_Case => ReadAgain = Ok(C6_Follower)

\* a delete of an element of a nested Array that another element stood behind
C6_Witness ==
    /\ C6_Case
    /\ Len(LastTokens) = 2
    /\ LastSegment.t = "Index"
    /\ C6_Follower # NoValue
    /\ ReadAgain = Ok(C6_Follower)

\* a delete of a key, and of the last element of an Array
C6_WitnessNone ==
    /\ C6_Case
    /\ C6_Follower = NoValue
    /\ ReadAgain = Ok(NoValue)

(***************************************************************************)
(* set                                                                     *)
(***************************************************************************)
C7_Case ==
    /\ last.op = "set"
    /\ Len(LastTokens) >= 2
    /\ \/ ~Addresses(last.pre, LastPrefix)
       \/ LastParent.kind \notin {"Table", "Array"}

\* C7: a set at a path whose prefix does not lead to a container (a key of it
\* is absent, an index of it is past the end, or a segment of it meets a Value
\* of the wrong kind) returns an error, and the document is the one it was
\* called on: no Table and no Array is made
C7_SetCreatesNothing ==
    C7_Case => /\ last.res.tag = "Err"
               /\ doc = last.pre

\* a refused set at a.b.a on a document without the key a
C7_Witness ==
    /\ C7_Case
    /\ Len(LastTokens) = 3
    /\ last.pre.kind = "Table"
    /\ MeetsAbsentKey(last.pre, SubSeq(LastTokens, 1, 1))
    /\ last.res.err.kind = "IdentifierNotFoundInDocument"
    /\ doc = last.pre

\* the number of entries of a container
EntryCount(v) == IF v.kind = "Table" THEN Cardinality(DOMAIN v.tab) ELSE Len(v.arr)

\* the paths of up to MaxSegs + 1 segments
ProbePaths == UNION {[1..n -> {Identifier(k) : k \in Keys} \cup {Index(i) : i \in 0..(MaxIdx + 1)}] : n \in 0..(MaxSegs + 1)}

\* path p leads to or through the place that path q addresses
Through(p, q) == Len(q) <= Len(p) /\ SubSeq(p, 1, Len(q)) = q

C8_Case ==
    /\ last.op = "set"
    /\ Addresses(last.pre, LastTokens)

\* C8: a set at a path that addresses a Value returns Ok(Some(old)), old being
\* that Value; a read of the path then returns the new Value; the parent has
\* as many entries as before, as has every container above it, and every Value
\* beside the path is as before
C8_SetReplaces ==
    C8_Case => /\ last.res = Ok(Addressed(last.pre, LastTokens))
               /\ ReadAgain = Ok(last.value)
               /\ EntryCount(Addressed(doc, LastPrefix)) = EntryCount(LastParent)
               /\ \A p \in ProbePaths :
                     /\ ~Through(p, LastTokens)
                     /\ ~Through(LastTokens, p)
                     => Addressed(doc, p) = Addressed(last.pre, p)
               /\ \A p \in ProbePaths :
                     /\ Len(p) < Len(LastTokens)
                     /\ Through(LastTokens, p)
                     => EntryCount(Addressed(doc, p)) = EntryCount(Addressed(last.pre, p))

\* a set of another Value at an element of a nested Array
C8_Witness ==
    /\ C8_Case
    /\ Len(LastTokens) = 2
    /\ LastSegment.t = "Index"
    /\ last.res.some
    /\ last.res.val # last.value
    /\ ReadAgain = Ok(last.value)

\* a set of another Value at a key of a nested Table
C8_WitnessTable ==
    /\ C8_Case
    /\ Len(LastTokens) = 2
    /\ LastSegment.t = "Identifier"
    /\ last.res.val # last.value
    /\ ReadAgain = Ok(last.value)

(***************************************************************************)
(* delete of an index at or past the end                                   *)
(***************************************************************************)
C9_Case ==
    /\ last.op = "delete"
    /\ Len(LastTokens) >= 1
    /\ LastSegment.t = "Index"
    /\ LastParent.kind = "Array"
    /\ LastSegment.idx >= Len(LastParent.arr)

C9_Outcome ==
    /\ last.res = Err(Error("ArrayIndexOutOfBounds", <<>>, LastSegment.idx, Len(LastParent.arr)))
    /\ doc = last.pre

\* C9: a delete whose last segment is Index i, the parent being an Array of
\* length n (the root or a nested one), fails with ArrayIndexOutOfBounds(i, n)
\* for every i >= n, i = n and the empty Array included, and the document is
\* the one it was called on
C9_DeleteOutOfBounds == C9_Case => C9_Outcome

\* the same for a nested Array and i > n only
C9_DeleteFarOutOfBounds ==
    (C9_Case /\ Len(LastTokens) >= 2 /\ LastSegment.idx > Len(LastParent.arr)) => C9_Outcome

\* the nested Array and i = n: the call does not return
C9_NestedAtEnd ==
    (C9_Case /\ Len(LastTokens) >= 2 /\ LastSegment.idx = Len(LastParent.arr)) => last.res.tag # "Panic"

(***************************************************************************)
(* insert at an index                                                      *)
(***************************************************************************)
Min(a, b) == IF a < b THEN a ELSE b

C10_Case ==
    /\ last.op = "insert"
    /\ Len(LastTokens) >= 1
    /\ LastSegment.t = "Index"
    /\ LastParent.kind = "Array"

C10_Outcome ==
    LET old == LastParent.arr
        new == Addressed(doc, LastPrefix)
        n   == Len(old)
        p   == Min(LastSegment.idx, n)
    IN  /\ last.res = Ok(NoValue)
        /\ new.kind = "Array"
        /\ Len(new.arr) = n + 1
        /\ new.arr[p + 1] = last.value
        /\ \A j \in 1..n : new.arr[IF j <= p THEN j ELSE j + 1] = old[j]

\* C10: an insert whose last segment is Index i, the parent being an Array of
\* length n, puts V at position min(i, n), keeps the n elements in their order
\* (those at i and behind it one position further), makes the length n + 1 and
\* returns Ok(None)
C10_InsertIntoArray == C10_Case => C10_Outcome

\* the same for the paths of two or more segments only
C10_InsertIntoArrayBelowRoot == (C10_Case /\ Len(LastTokens) >= 2) => C10_Outcome

C10_BelowRootWitness ==
    /\ C10_Case
    /\ Len(LastTokens) >= 2
    /\ Len(LastParent.arr) = 1
    /\ LastSegment.idx = 0
    /\ C10_Outcome

(***************************************************************************)
(* delete of a key                                                         *)
(***************************************************************************)
\* every Value beside the path of the last call is as it was before the call
BesideUnchanged ==
    \A p \in ProbePaths :
        /\ ~Through(p, LastTokens)
        /\ ~Through(LastTokens, p)
        => Addressed(doc, p) = Addressed(last.pre, p)

C11_Case ==
    /\ last.op = "delete"
    /\ Len(LastTokens) >= 1
    /\ LastSegment.t = "Identifier"
    /\ LastParent.kind = "Table"

\* C11: a delete whose last segment is Identifier k, the parent being a Table:
\* when k is absent it returns Ok(None) and the document is the one it was
\* called on; when k holds a scalar or an empty container v it returns
\* Ok(Some(v)), k is absent from the parent afterwards, the other keys of the
\* parent and every Value beside the path are as before
C11_DeleteKey ==
    C11_Case =>
        LET k == LastSegment.ident
            stored == MapGet(LastParent.tab, k)
        IN  /\ stored = NoValue => last.res = Ok(NoValue) /\ doc = last.pre
            /\ (stored # NoValue /\ ~NonEmptyContainer(stored)) =>
                  /\ last.res = Ok(stored)
                  /\ last.res.some
                  /\ Addressed(doc, LastPrefix).kind = "Table"
                  /\ DOMAIN Addressed(doc, LastPrefix).tab = DOMAIN LastParent.tab \ {k}
                  /\ BesideUnchanged

\* a delete of a key of a nested Table that holds a Value, beside another key
C11_Witness ==
    /\ C11_Case
    /\ Len(LastTokens) = 2
    /\ LastSegment.ident \in DOMAIN LastParent.tab
    /\ Cardinality(DOMAIN LastParent.tab) = 2
    /\ last.res.some
    /\ LastSegment.ident \notin DOMAIN Addressed(doc, LastPrefix).tab

\* a delete of a key that the root Table lacks
C11_WitnessAbsent ==
    /\ C11_Case
    /\ Len(LastTokens) = 1
    /\ DOMAIN LastParent.tab # {}
    /\ LastSegment.ident \notin DOMAIN LastParent.tab
    /\ last.res = Ok(NoValue)

(***************************************************************************)
(* insert at a path of one segment                                         *)
(***************************************************************************)
C12_Case ==
    /\ last.op = "insert"
    /\ Len(LastTokens) = 1
    /\ \/ last.pre.kind = "Table" /\ LastSegment.t = "Identifier"
       \/ last.pre.kind = "Array" /\ LastSegment.t = "Index"

\* C12: an insert at a path of one segment acts on the root: on a Table root
\* it stores V under the key and returns Ok(the Value the key held, or None);
\* on an Array root it puts V into the root Array
C12_InsertAtRoot ==
    C12_Case =>
        IF last.pre.kind = "Table"
        THEN /\ last.res = Ok(MapGet(last.pre.tab, LastSegment.ident))
             /\ doc = Table(MapInsert(last.pre.tab, LastSegment.ident, last.value))
        ELSE /\ last.res.tag = "Ok"
             /\ doc.kind = "Array"
             /\ Len(doc.arr) = Len(last.pre.arr) + 1
             /\ doc.arr[Min(LastSegment.idx, Len(last.pre.arr)) + 1] = last.value

(***************************************************************************)
(* insert at a key                                                         *)
(***************************************************************************)
C13_Case ==
    /\ last.op = "insert"
    /\ Len(LastTokens) >= 1
    /\ LastSegment.t = "Identifier"
    /\ LastParent.kind = "Table"

C13_Outcome ==
    /\ last.res = Ok(MapGet(LastParent.tab, LastSegment.ident))
    /\ Addressed(doc, LastTokens) = last.value
    /\ BesideUnchanged

\* C13: an insert whose last segment is Identifier k, the parent being a
\* Table, returns Ok(Some(old)) when k held the Value old (of any kind, a
\* non-empty container included) and Ok(None) when k was absent; k holds V
\* afterwards
C13_InsertAtKey == C13_Case => C13_Outcome

\* the same for the paths of two or more segments only
C13_InsertAtKeyBelowRoot == (C13_Case /\ Len(LastTokens) >= 2) => C13_Outcome

\* an insert that replaced a non-empty container below the root
C13_BelowRootWitness ==
    /\ C13_Case
    /\ Len(LastTokens) >= 2
    /\ NonEmptyContainer(MapGet(LastParent.tab, LastSegment.ident))
    /\ C13_Outcome

(***************************************************************************)
(* Reading: a segment that does not fit the kind of the Value it meets     *)
(***************************************************************************)
\* the error of the first segment of the walk that does not fit the kind of
\* the Value it meets; "none" when the walk ends or meets absence before that
RECURSIVE MismatchKind(_, _)
MismatchKind(v, toks) ==
    IF toks = <<>>
    THEN "none"
    ELSE LET tok == Head(toks)
         IN  IF v.kind = "Table"
             THEN IF tok.t = "Index" THEN "NoIndexInTable"
                  ELSE IF tok.ident \in DOMAIN v.tab
                       THEN MismatchKind(v.tab[tok.ident], Tail(toks))
                       ELSE "none"
             ELSE IF v.kind = "Array"
                  THEN IF tok.t = "Identifier" THEN "NoIdentifierInArray"
                       ELSE IF tok.idx < Len(v.arr)
                            THEN MismatchKind(v.arr[tok.idx + 1], Tail(toks))
                            ELSE "none"
                  ELSE IF tok.t = "Identifier" THEN "QueryingValueAsTable" ELSE "QueryingValueAsArray"

C14_Case ==
    /\ last.op = "read"
    /\ MismatchKind(last.pre, LastTokens) # "none"

C14_WitnessNoIndexInTable == C14_Case /\ last.res.err.kind = "NoIndexInTable" /\ DOMAIN last.pre.tab # {}

C14_WitnessNoIdentifierInArray == C14_Case /\ last.res.err.kind = "NoIdentifierInArray"

C14_WitnessQueryingValueAsArray == C14_Case /\ last.res.err.kind = "QueryingValueAsArray"

(***************************************************************************)
(* insert: the last segment does not fit the kind of the parent            *)
(***************************************************************************)
\* the parent that the resolution of a prefix ends at: what the prefix
\* addresses, or the empty Table made for a key that a Table lacks (a chain of
\* them when only Identifiers follow); NoValue when the resolution ends at none
RECURSIVE ParentAfterResolve(_, _)
ParentAfterResolve(v, toks) ==
    IF toks = <<>>
    THEN v
    ELSE LET tok == Head(toks)
         IN  IF v.kind = "Table" /\ tok.t = "Identifier"
             THEN IF tok.ident \in DOMAIN v.tab
                  THEN ParentAfterResolve(v.tab[tok.ident], Tail(toks))
                  ELSE IF AllIdentifiers(Tail(toks)) THEN Table(EmptyMap) ELSE NoValue
             ELSE IF v.kind = "Array" /\ tok.t = "Index" /\ tok.idx < Len(v.arr)
                  THEN ParentAfterResolve(v.arr[tok.idx + 1], Tail(toks))
                  ELSE NoValue

C15_Case ==
    /\ last.op = "insert"
    /\ Len(LastTokens) >= 1
    /\ \/ LastSegment.t = "Identifier" /\ ParentAfterResolve(last.pre, LastPrefix).kind = "Array"
       \/ LastSegment.t = "Index" /\ ParentAfterResolve(last.pre, LastPrefix).kind = "Table"

C15_Outcome ==
    /\ last.res = IF LastSegment.t = "Identifier"
                  THEN Err(Error("NoIdentifierInArray", LastSegment.ident, 0, 0))
                  ELSE Err(Error("NoIndexInTable", <<>>, LastSegment.idx, 0))
    /\ Addressed(doc, LastPrefix) = ParentAfterResolve(last.pre, LastPrefix)
    /\ BesideUnchanged

\* C15: an insert whose last segment is an Identifier, the parent being an
\* Array, fails with NoIdentifierInArray, and one whose last segment is an
\* Index, the parent being a Table, fails with NoIndexInTable; the parent has
\* not taken V, and nothing beside the path has changed
C15_InsertMismatch == C15_Case => C15_Outcome

\* the same for the paths of two or more segments only
C15_InsertMismatchBelowRoot == (C15_Case /\ Len(LastTokens) >= 2) => C15_Outcome

C15_BelowRootWitness ==
    /\ C15_Case
    /\ Len(LastTokens) >= 2
    /\ LastSegment.t = "Identifier"
    /\ ParentAfterResolve(last.pre, LastPrefix).arr # <<>>
    /\ C15_Outcome

C15_BelowRootWitnessTable ==
    /\ C15_Case
    /\ Len(LastTokens) >= 2
    /\ LastSegment.t = "Index"
    /\ Addresses(last.pre, LastPrefix)
    /\ C15_Outcome

(***************************************************************************)
(* delete: the last segment does not fit the kind of the parent            *)
(***************************************************************************)
\* the error for the last segment of the last call on a parent of its kind
LastMismatch ==
    IF LastParent.kind = "Table" THEN Error("NoIndexInTable", <<>>, LastSegment.idx, 0)
    ELSE IF LastParent.kind = "Array" THEN Error("NoIdentifierInArray", LastSegment.ident, 0, 0)
    ELSE IF LastSegment.t = "Identifier" THEN Error("QueryingValueAsTable", LastSegment.ident, 0, 0)
    ELSE Error("QueryingValueAsArray", <<>>, LastSegment.idx, 0)

C16_Case ==
    /\ last.op = "delete"
    /\ Len(LastTokens) >= 1
    /\ \/ LastParent.kind = "Table" /\ LastSegment.t = "Index"
       \/ LastParent.kind = "Array" /\ LastSegment.t = "Identifier"
       \/ LastParent.kind = "Integer"

C16_Outcome ==
    /\ last.res = Err(LastMismatch)
    /\ doc = last.pre

\* C16: a delete whose last segment does not fit the kind of the parent fails,
\* at every depth and at the root, with NoIndexInTable (Index, Table),
\* NoIdentifierInArray (Identifier, Array), QueryingValueAsTable (Identifier,
\* scalar) or QueryingValueAsArray (Index, scalar); the document is the one it
\* was called on
C16_DeleteMismatch == C16_Case => C16_Outcome

\* the same but for an Index on the root Table
C16_DeleteMismatchButRootTable ==
    (C16_Case /\ ~(Len(LastTokens) = 1 /\ last.pre.kind = "Table")) => C16_Outcome

\* an Index on the root Table: Ok(None)
C16_RootTableIndex ==
    (C16_Case /\ Len(LastTokens) = 1 /\ last.pre.kind = "Table") => last.res = Ok(NoValue)

C16_WitnessBelowRoot == C16_Case /\ Len(LastTokens) >= 2 /\ LastParent.kind = "Table" /\ C16_Outcome

C16_WitnessRootTable == C16_Case /\ Len(LastTokens) = 1 /\ last.pre.kind = "Table"

(***************************************************************************)
(* set at an index at or past the end                                      *)
(***************************************************************************)
C17_Case ==
    /\ last.op = "set"
    /\ Len(LastTokens) >= 1
    /\ LastSegment.t = "Index"
    /\ LastParent.kind = "Array"
    /\ LastSegment.idx >= Len(LastParent.arr)

\* C17: a set whose last segment is Index i, the parent being an Array of
\* length n, returns an error for every i >= n, and the Array and the document
\* are as before: nothing is appended
C17_SetOutOfBounds ==
    C17_Case => /\ last.res.tag = "Err"
                /\ Addressed(doc, LastPrefix) = LastParent
                /\ doc = last.pre

\* a refused set at the end of a nested Array that has an element
C17_Witness ==
    /\ C17_Case
    /\ Len(LastTokens) = 2
    /\ Len(LastParent.arr) = 1
    /\ LastSegment.idx = 1
    /\ last.res.tag = "Err"
    /\ doc = last.pre

(***************************************************************************)
(* The tokenizer on its own: tokenize_with_seperator is applied to every   *)
(* short query over a small alphabet, and to queries with an index above   *)
(* usize::MAX.  last.res is what the tokenizer gave (ok, toks, err).       *)
(***************************************************************************)
MaxQueryLen == 6

TokChars == {"a", ".", "[", "]", "0", "1"}

TokQueries ==
    UNION {[1..n -> TokChars] : n \in 0..MaxQueryLen}
        \cup {OverflowQuery, OverflowQuery \o <<Seperator>>, <<"a", Seperator>> \o OverflowQuery}

TokInit ==
    /\ doc = Table(EmptyMap)
    /\ pc = "idle"
    /\ last = NoCall

Tokenize ==
    /\ pc = "idle"
    /\ \E query \in TokQueries :
          LET res == tokenize_with_seperator(query, Seperator)
          IN  /\ last' = Call("tokenize", query, NoValue, doc, res)
              /\ pc' = IF res = TokPanic THEN "aborted" ELSE "returned"
    /\ UNCHANGED doc

TokNext == Tokenize \/ Release

TokSpec == TokInit /\ [][TokNext]_vars

(***************************************************************************)
(* What the claims about the tokenizer speak of                            *)
(***************************************************************************)
\* the segments of the query of the last call
LastSegments == Split(last.query, Seperator)

\* '[' one-or-more-digits ']'
IsIndexForm(seg) ==
    /\ Len(seg) >= 3
    /\ seg[1] = "["
    /\ seg[Len(seg)] = "]"
    /\ \A i \in 2..(Len(seg) - 1) : seg[i] \in {DigitChars[j] : j \in 1..Len(DigitChars)}

Inside(seg) == SubSeq(seg, 2, Len(seg) - 1)

NoBrackets(seg) == \A i \in 1..Len(seg) : seg[i] \notin {"[", "]"}

\* '[' at the start and ']' at the end, but not '[' digits ']'
IsMalformedIndex(seg) ==
    /\ seg # <<>>
    /\ seg[1] = "["
    /\ seg[Len(seg)] = "]"
    /\ ~IsIndexForm(seg)

\* '[' digits ']' with a number above usize::MAX
IsOverflowIndex(seg) == IsIndexForm(seg) /\ FromStr_is_err(Inside(seg))

\* the number that a string of digits writes
RECURSIVE DecimalValue(_)
DecimalValue(s) ==
    IF s = <<>> THEN 0
    ELSE DecimalValue(SubSeq(s, 1, Len(s) - 1)) * 10
            + (CHOOSE d \in 0..9 : DigitChars[d + 1] = s[Len(s)])

C18_Case ==
    /\ last.op = "tokenize"
    /\ \A i \in 1..Len(LastSegments) : LastSegments[i] # <<>>

C18_Outcome ==
    /\ last.res.ok
    /\ Len(last.res.toks) = Len(LastSegments)
    /\ \A i \in 1..Len(LastSegments) :
          LET seg == LastSegments[i]
          IN  /\ IsIndexForm(seg) => last.res.toks[i] = Index(DecimalValue(Inside(seg)))
              /\ NoBrackets(seg) => last.res.toks[i] = Identifier(seg)

\* C18: for a query that the separator splits into n non-empty segments the
\* tokenizer returns a chain of n tokens in the order of the segments; a
\* segment '[' digits ']' gives Index with the number the digits write, a
\* segment without brackets gives Identifier with the text of the segment
C18_TokenPerSegment == C18_Case => C18_Outcome

\* the same for the queries none of whose segments has '[' at the start and
\* ']' at the end without being '[' digits ']' with a number up to usize::MAX;
\* a segment with a bracket that is not of the form '[' digits ']' gives an
\* Identifier too
C18_TokenPerSoundSegment ==
    (/\ C18_Case
     /\ \A i \in 1..Len(LastSegments) :
           ~IsMalformedIndex(LastSegments[i]) /\ ~IsOverflowIndex(LastSegments[i]))
    => /\ C18_Outcome
       /\ \A i \in 1..Len(LastSegments) :
             ~IsIndexForm(LastSegments[i]) => last.res.toks[i] = Identifier(LastSegments[i])

\* an index above usize::MAX: the tokenizer does not return
C18_OverflowAborts ==
    (/\ C18_Case
     /\ \E i \in 1..Len(LastSegments) :
           /\ IsOverflowIndex(LastSegments[i])
           /\ \A j \in 1..(i - 1) : ~IsMalformedIndex(LastSegments[j]))
    => last.res = TokPanic

C18_WitnessSound ==
    /\ C18_Case
    /\ Len(LastSegments) = 2
    /\ last.res.ok
    /\ last.res.toks[2] = Index(10)

C18_WitnessOverflow ==
    /\ C18_Case
    /\ last.query = OverflowQuery
    /\ pc = "aborted"

(***************************************************************************)
(* Queries with an empty segment                                           *)
(***************************************************************************)
HasEmptySegment == \E i \in 1..Len(LastSegments) : LastSegments[i] = <<>>

FirstEmptySegment == CHOOSE i \in 1..Len(LastSegments) : LastSegments[i] = <<>> /\ \A j \in 1..(i - 1) : LastSegments[j] # <<>>

C19_Case ==
    /\ last.op = "tokenize"
    /\ HasEmptySegment

C19_Outcome ==
    /\ ~last.res.ok
    /\ last.res.toks = <<>>
    /\ last.res.err = IF last.query = <<>> THEN "EmptyQueryError" ELSE "EmptyIdentifier"

\* C19: the tokenizer refuses every query with an empty segment: the empty
\* query with EmptyQueryError, a query with a separator at its start, at its
\* end or next to another one with EmptyIdentifier; no chain is returned
C19_EmptySegmentRefused == C19_Case => C19_Outcome

\* the same for the queries that have no segment with '[' at the start and
\* ']' at the end before the first empty one
C19_EmptySegmentRefusedAfterIdentifiers ==
    (/\ C19_Case
     /\ \A j \in 1..(FirstEmptySegment - 1) :
           ~IsMalformedIndex(LastSegments[j]) /\ ~IsOverflowIndex(LastSegments[j]))
    => C19_Outcome

\* a segment before the first empty one that is '[' digits ']' with a number
\* above usize::MAX: the tokenizer does not return; one that has '[' at the
\* start and ']' at the end without being '[' digits ']': ArrayAccessWithoutIndex
C19_EarlierSegmentDecides ==
    C19_Case =>
        \A j \in 1..(FirstEmptySegment - 1) :
            (\A k \in 1..(j - 1) : ~IsMalformedIndex(LastSegments[k]) /\ ~IsOverflowIndex(LastSegments[k]))
            => /\ IsOverflowIndex(LastSegments[j]) => last.res = TokPanic
               /\ IsMalformedIndex(LastSegments[j]) => last.res = TokErr("ArrayAccessWithoutIndex")

C19_WitnessRefused == C19_Case /\ Len(LastSegments) = 3 /\ LastSegments[2] = <<>> /\ C19_Outcome

C19_WitnessOverflow == C19_Case /\ last.query = OverflowQuery \o <<Seperator>> /\ last.res = TokPanic

(***************************************************************************)
(* Segments with brackets that are not '[' digits ']'                      *)
(***************************************************************************)
\* '[' at the start or ']' at the end, but not '[' digits ']'
IsBadBracketSegment(seg) ==
    /\ seg # <<>>
    /\ seg[1] = "[" \/ seg[Len(seg)] = "]"
    /\ ~IsIndexForm(seg)

\* the first segment of that kind
FirstBadBracketSegment ==
    CHOOSE i \in 1..Len(LastSegments) :
        /\ IsBadBracketSegment(LastSegments[i])
        /\ \A j \in 1..(i - 1) : ~IsBadBracketSegment(LastSegments[j])

\* a query with such a segment, no segment before the first of them being
\* empty or an index above usize::MAX
C20_Case ==
    /\ last.op = "tokenize"
    /\ \E i \in 1..Len(LastSegments) : IsBadBracketSegment(LastSegments[i])
    /\ \A j \in 1..(FirstBadBracketSegment - 1) :
          LastSegments[j] # <<>> /\ ~IsOverflowIndex(LastSegments[j])

\* C20: the tokenizer fails for every segment that has '[' at its start or
\* ']' at its end without being '[' digits ']': with ArrayAccessWithoutIndex
\* for '[]', with ArrayAccessWithInvalidIndex when what the brackets hold is
\* not digits only; a segment with one bracket only is no Identifier
C20_BadBracketRefused ==
    C20_Case =>
        LET seg == LastSegments[FirstBadBracketSegment]
        IN  /\ ~last.res.ok
            /\ last.res.toks = <<>>
            /\ seg = <<"[", "]">> => last.res.err = "ArrayAccessWithoutIndex"
            /\ (IsMalformedIndex(seg) /\ seg # <<"[", "]">>) => last.res.err = "ArrayAccessWithInvalidIndex"

\* what the tokenizer does: a segment with '[' at the start and ']' at the end
\* that is not '[' digits ']' is refused with ArrayAccessWithoutIndex, whatever
\* the brackets hold; a segment with a bracket at one end only is taken as it is
C20_BothBracketsRefused ==
    C20_Case =>
        LET seg == LastSegments[FirstBadBracketSegment]
        IN  IF IsMalformedIndex(seg)
            THEN last.res = TokErr("ArrayAccessWithoutIndex")
            ELSE \/ /\ last.res.ok
                    /\ last.res.toks[FirstBadBracketSegment] = Identifier(seg)
                 \/ ~last.res.ok /\ Len(LastSegments) > FirstBadBracketSegment

\* never ArrayAccessWithInvalidIndex
C20_NeverInvalidIndex == last.op = "tokenize" => last.res.err # "ArrayAccessWithInvalidIndex"

C20_WitnessHalf == C20_Case /\ last.query = <<"[", "a">> /\ last.res.ok

C20_WitnessBoth == C20_Case /\ last.query = <<"[", "a", "]">> /\ last.res.err = "ArrayAccessWithoutIndex"

(***************************************************************************)
(* insert at an index below a key that is missing                          *)
(***************************************************************************)
C21_Case ==
    /\ last.op = "insert"
    /\ Len(LastTokens) >= 2
    /\ LastSegment.t = "Index"
    /\ AllIdentifiers(LastPrefix)
    /\ MeetsAbsentKey(last.pre, LastPrefix)

\* C21: an insert at a path of identifiers that ends in an Index, some key of
\* which is absent from its Table (a.b.[0] where only the Table a exists),
\* returns Ok(None) and leaves the document it was called on with an empty
\* Table under every missing key but the last and, under the last key, an
\* Array whose only element is the inserted value, whatever the index
C21_InsertCreatesArray ==
    C21_Case => /\ last.res = Ok(NoValue)
                /\ doc = WithEntry(last.pre, LastPrefix, Array(<<last.value>>))

\* what the call does: the missing keys, the last one included, get empty
\* Tables, the Index does not fit the Table under the last key, and the call
\* fails with the Tables left in the document
C21_InsertFailsOnCreatedTable ==
    C21_Case => /\ last.res = Err(Error("NoIndexInTable", <<>>, LastSegment.idx, 0))
                /\ doc = WithEntry(last.pre, LastPrefix, Table(EmptyMap))

\* insert at a.b.[0] into a document that holds the empty Table a and no more
C21_WitnessFails ==
    /\ C21_Case
    /\ last.pre = Table(<<"a">> :> Table(EmptyMap))
    /\ LastTokens = <<Identifier(<<"a">>), Identifier(<<"b">>), Index(0)>>
    /\ last.res.tag = "Err"
    /\ doc = Table(<<"a">> :> Table(<<"b">> :> Table(EmptyMap)))

(***************************************************************************)
(* read changes nothing                                                    *)
(***************************************************************************)
C22_Case == last.op = "read"

\* C22: after a read of any query on any document, whether it returned
\* Ok(Some), Ok(None) or an error, the document is the one the read was called
\* on; a read of an absent key does not make the key
C22_ReadChangesNothing == C22_Case => doc = last.pre

\* a read of a.b that found the key a missing in the root Table
C22_Witness ==
    /\ C22_Case
    /\ Len(LastTokens) = 2
    /\ last.pre.kind = "Table"
    /\ LastTokens[1].t = "Identifier"
    /\ LastTokens[1].ident \notin DOMAIN last.pre.tab
    /\ last.res = Ok(NoValue)
    /\ doc = last.pre

\* a read that returned a Value, and one that returned an error
C22_WitnessSome ==
    /\ C22_Case
    /\ last.res.tag = "Ok"
    /\ last.res.some
    /\ doc = last.pre

C22_WitnessErr ==
    /\ C22_Case
    /\ last.res.tag = "Err"
    /\ doc = last.pre

(***************************************************************************)
(* The creating resolver alone: resolve(&mut toml, &tokens) is called on a *)
(* document with the tokens of a query, and the document is what the walk  *)
(* leaves of it.                                                           *)
(***************************************************************************)
\* the Values of one level: the scalar, the containers of up to two scalars
\* or empty containers
ResolveLevel ==
    Elements
    \cup {Table(t) : t \in UNION {[S -> Elements] : S \in (SUBSET Keys) \ {{}}}}
    \cup {Array(a) : a \in UNION {[1..n -> Elements] : n \in 1..2}}

\* the documents a resolution starts from: those, and a Table or an Array
\* that holds one of those
ResolveDocs ==
    LET all == ResolveLevel
               \cup {Table(<<"a">> :> v) : v \in ResolveLevel}
               \cup {Array(<<v>>) : v \in ResolveLevel}
    IN  {d \in all : NodeCount(d) <= MaxNodes}

\* the queries that have tokens
TokenQueries == {Join(segs) : segs \in SegmentLists}

ResolveInit ==
    /\ doc \in ResolveDocs
    /\ pc = "idle"
    /\ last = NoCall

ResolveCreating ==
    /\ pc = "idle"
    /\ \E query \in TokenQueries :
          LET r == mut_creating_resolver_resolve(doc, tokenize_with_seperator(query, Seperator).toks)
          IN  /\ NodeCount(r.toml) <= MaxNodes
              /\ doc' = r.toml
              /\ pc' = IF r.tag = "Panic" THEN "aborted" ELSE "returned"
              /\ last' = Call("resolve", query, NoValue, doc, r)

ResolveNext == ResolveCreating \/ Release

ResolveSpec == ResolveInit /\ [][ResolveNext]_vars

(***************************************************************************)
(* The creating resolver: a key that is missing                            *)
(***************************************************************************)
\* the position of the first token of toks that is an Identifier whose key
\* the Table reached by the tokens before it lacks; 0 when the walk along
\* toks meets no such Table
RECURSIVE AbsentKeyAt(_, _)
AbsentKeyAt(v, toks) ==
    IF toks = <<>>
    THEN 0
    ELSE LET tok   == Head(toks)
             below == IF tok.t = "Identifier"
                      THEN AbsentKeyAt(v.tab[tok.ident], Tail(toks))
                      ELSE AbsentKeyAt(v.arr[tok.idx + 1], Tail(toks))
         IN  IF tok.t = "Identifier" /\ v.kind = "Table"
             THEN IF tok.ident \notin DOMAIN v.tab
                  THEN 1
                  ELSE IF below = 0 THEN 0 ELSE below + 1
             ELSE IF tok.t = "Index" /\ v.kind = "Array" /\ tok.idx < Len(v.arr)
                  THEN IF below = 0 THEN 0 ELSE below + 1
                  ELSE 0

\* the position of the first Index behind position i of toks; 0: none
FirstIndexAfter(toks, i) ==
    IF \E j \in (i + 1)..Len(toks) : toks[j].t = "Index"
    THEN CHOOSE j \in (i + 1)..Len(toks) :
            /\ toks[j].t = "Index"
            /\ \A k \in (i + 1)..(j - 1) : toks[k].t = "Identifier"
    ELSE 0

\* the document with an empty Table under every key of the path that was
\* missing, and nothing else changed
RECURSIVE WithCreated(_, _)
WithCreated(v, toks) ==
    IF toks = <<>>
    THEN v
    ELSE LET tok == Head(toks)
         IN  IF tok.t = "Identifier"
             THEN Table(MapInsert(v.tab, tok.ident,
                                  WithCreated(IF tok.ident \in DOMAIN v.tab THEN v.tab[tok.ident] ELSE Table(EmptyMap),
                                              Tail(toks))))
             ELSE Array([v.arr EXCEPT ![tok.idx + 1] = WithCreated(@, Tail(toks))])

C23_Case ==
    /\ last.op = "resolve"
    /\ AbsentKeyAt(last.pre, LastTokens) > 0

C23_WitnessContinues ==
    /\ C23_Case
    /\ last.pre = Table(EmptyMap)
    /\ LastTokens = <<Identifier(<<"a">>), Identifier(<<"b">>)>>
    /\ last.res.tag = "Ok"
    /\ doc = Table(<<"a">> :> Table(<<"b">> :> Table(EmptyMap)))

C23_WitnessReturnsCreated ==
    /\ C23_Case
    /\ Len(LastTokens) = 1
    /\ last.res.tag = "Ok"
    /\ Deref(doc, last.res.handle) = Table(EmptyMap)

\* the missing key is met below an element of an Array
C23_WitnessBelowArray ==
    /\ C23_Case
    /\ LastTokens[1].t = "Index"
    /\ AbsentKeyAt(last.pre, LastTokens) = 2
    /\ last.res.tag = "Ok"

(***************************************************************************)
(* The creating resolver: a scalar on the way                              *)
(***************************************************************************)
ScalarMismatches == {"QueryingValueAsTable", "QueryingValueAsArray"}

C24_Case ==
    /\ last.op = "resolve"
    /\ MismatchKind(last.pre, LastTokens) \in ScalarMismatches

\* C24: when the creating resolver reaches a scalar with a token left to
\* apply, it fails with QueryingValueAsTable if that token is an Identifier
\* and with QueryingValueAsArray if it is an Index, as the read-only resolver
\* does
C24_ScalarIsTypedError ==
    C24_Case => /\ last.res.tag = "Err"
                /\ last.res.err.kind = MismatchKind(last.pre, LastTokens)

\* what the resolver does: the call does not return, the document untouched
C24_ScalarAborts ==
    C24_Case => /\ last.res.tag = "Panic"
                /\ pc = "aborted"
                /\ doc = last.pre

\* the resolution of a.b on a document whose key a holds a scalar
C24_WitnessAborts ==
    /\ C24_Case
    /\ last.pre = Table(<<"a">> :> Integer(1))
    /\ LastTokens = <<Identifier(<<"a">>), Identifier(<<"b">>)>>
    /\ pc = "aborted"

\* the same through insert: a scalar met by a token of the prefix
C24_InsertCase ==
    /\ last.op = "insert"
    /\ Len(LastTokens) >= 2
    /\ MismatchKind(last.pre, LastPrefix) \in ScalarMismatches

C24_InsertOnScalarAborts ==
    C24_InsertCase => /\ last.res.tag = "Panic"
                      /\ doc = last.pre

C24_WitnessInsertAborts ==
    /\ C24_InsertCase
    /\ MismatchKind(last.pre, LastPrefix) = "QueryingValueAsArray"
    /\ pc = "aborted"

(***************************************************************************)
(* The creating resolver: an index past the end, tokens behind it          *)
(***************************************************************************)
\* the position of the first token of toks that is an Index at or past the
\* end of the Array reached by the tokens before it, with tokens behind it;
\* 0 when the walk along toks meets no such Array
RECURSIVE PastEndAt(_, _)
PastEndAt(v, toks) ==
    IF Len(toks) < 2
    THEN 0
    ELSE LET tok   == Head(toks)
             below == IF tok.t = "Identifier"
                      THEN PastEndAt(v.tab[tok.ident], Tail(toks))
                      ELSE PastEndAt(v.arr[tok.idx + 1], Tail(toks))
         IN  IF tok.t = "Index" /\ v.kind = "Array"
             THEN IF tok.idx >= Len(v.arr)
                  THEN 1
                  ELSE IF below = 0 THEN 0 ELSE below + 1
             ELSE IF tok.t = "Identifier" /\ v.kind = "Table" /\ tok.ident \in DOMAIN v.tab
                  THEN IF below = 0 THEN 0 ELSE below + 1
                  ELSE 0

C25_Case ==
    /\ last.op = "resolve"
    /\ PastEndAt(last.pre, LastTokens) > 0

\* the Array that is met, before and after the call, and the token behind the Index
C25_Old == Addressed(last.pre, SubSeq(LastTokens, 1, PastEndAt(last.pre, LastTokens) - 1))

C25_New == Addressed(doc, SubSeq(LastTokens, 1, PastEndAt(last.pre, LastTokens) - 1))

C25_NextToken == LastTokens[PastEndAt(last.pre, LastTokens) + 1]

C25_Appended ==
    /\ C25_New.kind = "Array"
    /\ Len(C25_New.arr) = Len(C25_Old.arr) + 1
    /\ SubSeq(C25_New.arr, 1, Len(C25_Old.arr)) = C25_Old.arr

\* C25: when the creating resolver applies an Index i to an Array of length n
\* with i >= n and tokens behind it, it appends exactly one element, a Table
\* if the next token is an Identifier and an Array if it is an Index, and goes
\* on with the resolution inside the new element: the call returns
C25_AppendsAndContinues ==
    C25_Case => /\ C25_Appended
                /\ C25_New.arr[Len(C25_New.arr)].kind = IF C25_NextToken.t = "Identifier" THEN "Table" ELSE "Array"
                /\ last.res.tag # "Panic"
                /\ pc # "aborted"

\* what the resolver does: it appends the one empty element and aborts
C25_AppendsAndAborts ==
    C25_Case => /\ C25_Appended
                /\ C25_New.arr[Len(C25_New.arr)] = IF C25_NextToken.t = "Identifier" THEN Table(EmptyMap) ELSE Array(<<>>)
                /\ last.res.tag = "Panic"
                /\ last.res.err.kind = "Cannot do this"
                /\ pc = "aborted"

\* the resolution of [0].a on the empty Array, and of a.[1].[0] on {a = [1]}
C25_WitnessAborts ==
    /\ C25_Case
    /\ last.pre = Array(<<>>)
    /\ LastTokens = <<Index(0), Identifier(<<"a">>)>>
    /\ doc = Array(<<Table(EmptyMap)>>)
    /\ pc = "aborted"

C25_WitnessAbortsNested ==
    /\ C25_Case
    /\ last.pre = Table(<<"a">> :> Array(<<Integer(1)>>))
    /\ LastTokens = <<Identifier(<<"a">>), Index(1), Index(0)>>
    /\ doc = Table(<<"a">> :> Array(<<Integer(1), Array(<<>>)>>))
    /\ pc = "aborted"

(***************************************************************************)
(* Token::pop_last alone: a chain of tokens is made by the tokenizer, and  *)
(* pop_last is called on it again and again.                               *)
(***************************************************************************)
\* longest chain, in tokens
MaxChain == 5

ChainQueries == {Join(segs) : segs \in UNION {[1..n -> Segments] : n \in 1..MaxChain}}

\* the chain a pop_last is called on: what the tokenizer made, or what the
\* pop_last before left of it
Chain == IF last.op = "tokenize" THEN last.res.toks ELSE last.res.tokens

PopInit ==
    /\ doc = Table(EmptyMap)
    /\ pc = "returned"
    /\ \E query \in ChainQueries :
          last = Call("tokenize", query, NoValue, doc, tokenize_with_seperator(query, Seperator))

PopLast ==
    /\ pc = "returned"
    /\ last.op \in {"tokenize", "pop_last"}
    /\ last' = Call("pop_last", last.query, NoValue, Chain, pop_last(Chain))
    /\ UNCHANGED <<doc, pc>>

PopNext == PopLast

PopSpec == PopInit /\ [][PopNext]_vars

C26_Case == last.op = "pop_last"

\* C26: pop_last on a chain of n >= 2 tokens returns the n-th token and leaves
\* the first n - 1 tokens in their order; on a chain of one token it returns
\* None and leaves the token; the chain it is called on is always the first
\* tokens of the query, so that repeated calls return the tokens n, n - 1, ..,
\* 2 of the query in that order and None from then on
C26_PopLast ==
    C26_Case =>
        LET n == Len(last.pre)
        IN  /\ n >= 1
            /\ last.pre = SubSeq(LastTokens, 1, n)
            /\ IF n >= 2
               THEN /\ last.res.some
                    /\ last.res.last = LastTokens[n]
                    /\ last.res.tokens = SubSeq(LastTokens, 1, n - 1)
               ELSE /\ ~last.res.some
                    /\ last.res.tokens = last.pre

\* the third pop_last on a chain of five tokens has returned the third token
C26_Witness ==
    /\ C26_Case
    /\ Len(LastTokens) = 5
    /\ Len(last.pre) = 3
    /\ last.res.some
    /\ last.res.last = LastTokens[3]
    /\ last.res.tokens = SubSeq(LastTokens, 1, 2)

\* a pop_last that returned None: on a chain of one token from the start,
\* and on what earlier calls left of a longer chain
C26_WitnessNone ==
    /\ C26_Case
    /\ Len(LastTokens) = 1
    /\ ~last.res.some

C26_WitnessNoneAfterPops ==
    /\ C26_Case
    /\ Len(LastTokens) = 5
    /\ Len(last.pre) = 1
    /\ ~last.res.some
    /\ last.res.tokens = <<LastTokens[1]>>

(***************************************************************************)
(* delete below a prefix that does not resolve                             *)
(***************************************************************************)
C27_Case ==
    /\ last.op = "delete"
    /\ Len(LastTokens) >= 2
    /\ WalkMeetsAbsence(last.pre, LastPrefix)

\* C27: a delete at a path of two or more segments whose prefix meets a Table
\* that lacks the key or an Array that is too short for the index returns an
\* error - not Ok(None), and it does not abort - and the document is the one
\* it was called on
C27_DeleteBelowAbsentFails ==
    C27_Case => /\ last.res.tag = "Err"
                /\ pc # "aborted"
                /\ doc = last.pre

\* a delete at a.b on the empty document
C27_Witness ==
    /\ C27_Case
    /\ last.pre = Table(EmptyMap)
    /\ LastTokens = <<Identifier(<<"a">>), Identifier(<<"b">>)>>
    /\ last.res.tag = "Err"
    /\ last.res.err.kind = "IdentifierNotFoundInDocument"
    /\ doc = last.pre

\* a delete below an index past the end of the root Array
C27_WitnessIndex ==
    /\ C27_Case
    /\ last.pre.kind = "Array"
    /\ LastTokens[1].t = "Index"
    /\ LastTokens[1].idx >= Len(last.pre.arr)
    /\ last.res.tag = "Err"
    /\ doc = last.pre

(***************************************************************************)
(* an insert that fails                                                    *)
(***************************************************************************)
C28_Case ==
    /\ last.op = "insert"
    /\ last.res.tag = "Err"

RECURSIVE WalkedPrefix(_, _)
WalkedPrefix(v, toks) ==
    IF toks = <<>>
    THEN <<>>
    ELSE LET tok == Head(toks)
         IN  IF tok.t = "Identifier" /\ v.kind = "Table"
             THEN <<tok>> \o WalkedPrefix(IF tok.ident \in DOMAIN v.tab THEN v.tab[tok.ident] ELSE Table(EmptyMap),
                                         Tail(toks))
             ELSE IF tok.t = "Index" /\ v.kind = "Array" /\ tok.idx < Len(v.arr)
                  THEN <<tok>> \o WalkedPrefix(v.arr[tok.idx + 1], Tail(toks))
                  ELSE <<>>

\* what holds of an insert that returned an error: the document differs from
\* the one it was called on by the empty Tables the resolution of the prefix
\* made, and by nothing else
C28_FailedInsertLeavesCreated ==
    C28_Case => doc = WithCreated(last.pre, WalkedPrefix(last.pre, LastPrefix))

\* the failed insert at a.[0] into the empty document has left the Table a
C28_WitnessLeft ==
    /\ C28_Case
    /\ last.pre = Table(EmptyMap)
    /\ LastTokens = <<Identifier(<<"a">>), Index(0)>>
    /\ doc = Table(<<"a">> :> Table(EmptyMap))

(***************************************************************************)
(* insert and delete: what is beside the path                              *)
(***************************************************************************)
\* what a read along the tokens toks returns on the document d
ReadTokens(d, toks) ==
    LET r == non_mut_resolver_resolve(d, toks, FALSE)
    IN  IF r.tag = "Err" THEN Err(r.err)
        ELSE IF r.some THEN Ok(Deref(r.toml, r.handle)) ELSE Ok(NoValue)

C29_Case ==
    /\ last.op \in {"insert", "delete"}
    /\ last.res.tag = "Ok"

\* path q goes through an element of the Array that the last segment of the
\* path of the call indexes, at position `from` or behind it
ThroughElementFrom(q, from) ==
    /\ LastSegment.t = "Index"
    /\ Len(q) >= Len(LastTokens)
    /\ SubSeq(q, 1, Len(LastTokens) - 1) = LastPrefix
    /\ q[Len(LastTokens)].t = "Index"
    /\ q[Len(LastTokens)].idx >= from

\* path q applies an Index to a Table that the call made for a key of its
\* path that was missing
IndexesCreatedTable(q) ==
    \E k \in 1..(Len(LastTokens) - 1) :
        /\ Len(q) > k
        /\ SubSeq(q, 1, k) = SubSeq(LastTokens, 1, k)
        /\ ~Addresses(last.pre, SubSeq(LastTokens, 1, k))
        /\ q[k + 1].t = "Index"

C29_Beside(q) ==
    /\ q # <<>>
    /\ ~Through(q, LastTokens)
    /\ ~Through(LastTokens, q)

C29_WitnessDelete ==
    /\ C29_Case
    /\ last.op = "delete"
    /\ last.res.some
    /\ Len(LastTokens) = 2
    /\ LastSegment.t = "Identifier"
    /\ Cardinality(DOMAIN LastParent.tab) = 2
    /\ \E k \in Keys : /\ k # LastSegment.ident
                       /\ ReadTokens(doc, LastPrefix \o <<Identifier(k)>>) = Ok(LastParent.tab[k])

\* the two cases the statement leaves out: an insert past the end of an Array,
\* which lands before its index, and an insert that makes a Table on the way
C29_WitnessClamped ==
    /\ C29_Case
    /\ last.op = "insert"
    /\ LastSegment.t = "Index"
    /\ LastParent.kind = "Array"
    /\ LastSegment.idx > Len(LastParent.arr)
    /\ ReadTokens(last.pre, LastPrefix \o <<Index(Len(LastParent.arr))>>) = Ok(NoValue)
    /\ ReadTokens(doc, LastPrefix \o <<Index(Len(LastParent.arr))>>) = Ok(last.value)

C29_WitnessCreated ==
    /\ C29_Case
    /\ last.op = "insert"
    /\ Len(LastTokens) = 3
    /\ ~Addresses(last.pre, SubSeq(LastTokens, 1, 1))
    /\ ReadTokens(last.pre, <<LastTokens[1], Index(0)>>) = Ok(NoValue)
    /\ ReadTokens(doc, <<LastTokens[1], Index(0)>>) = Err(Error("NoIndexInTable", <<>>, 0, 0))

(***************************************************************************)
(* insert, then delete                                                     *)
(***************************************************************************)
\* what a delete at the path of the last call does on the document as it is now
DeleteAgain == delete_with_seperator(doc, last.query, Seperator)

C30_Case ==
    /\ last.op = "insert"
    /\ Len(LastTokens) >= 2
    /\ LastSegment.t = "Identifier"
    /\ Addresses(last.pre, LastPrefix)
    /\ LastParent.kind = "Table"
    /\ LastSegment.ident \notin DOMAIN LastParent.tab

\* C30: an insert of V (a scalar, an empty Table or an empty Array) at a path
\* of two or more segments whose parent is an existing Table without the last
\* key returns Ok(None); a delete at the same path then returns Ok(Some(V))
\* and leaves the document the insert was called on
C30_InsertThenDelete ==
    C30_Case => /\ last.res = Ok(NoValue)
                /\ Addressed(doc, LastTokens) = last.value
                /\ DeleteAgain.res = Ok(last.value)
                /\ DeleteAgain.doc = last.pre

\* insert at a.b into {a = {a = 1}}, for each kind of value
C30_Witness ==
    /\ C30_Case
    /\ last.pre = Table(<<"a">> :> Table(<<"a">> :> Integer(1)))
    /\ LastTokens = <<Identifier(<<"a">>), Identifier(<<"b">>)>>
    /\ last.value = Array(<<>>)
    /\ doc # last.pre
    /\ DeleteAgain.res = Ok(Array(<<>>))
    /\ DeleteAgain.doc = last.pre

\* the parent is a Table that is an element of an Array, and is empty
C30_WitnessInArray ==
    /\ C30_Case
    /\ LastTokens[1].t = "Index"
    /\ LastParent = Table(EmptyMap)
    /\ last.value = Integer(1)
    /\ DeleteAgain.res = Ok(Integer(1))
    /\ DeleteAgain.doc = last.pre
====
